---------------------------- MODULE Spec2Model ----------------------------
(***************************************************************************)
(* Model of solution.py: the diagonal-sudoku solver (constraint            *)
(* propagation by eliminate / only_choice / naked_twins, and depth-first   *)
(* search).                                                                *)
(*                                                                         *)
(* Representation.  A box 'A1'..'I9' is its index 1..81 in `boxes`         *)
(* (row-major).  A value string such as '1357' is the set {1,3,5,7}: the   *)
(* code only ever deletes characters from '123456789' (str.replace,        *)
(* re.sub) or stores one digit, so every value is an ascending, duplicate- *)
(* free subsequence of '123456789' and is determined by its set of digits; *)
(* len(s) is Cardinality and iteration over s is ascending.  A dictionary  *)
(* {box: string} is a tuple of 81 such sets, in the order of `boxes`,      *)
(* which is the insertion order grid_values gives the dict and dict.copy   *)
(* keeps.  A grid string is a tuple of 81 numbers, 0 standing for '.'.     *)
(***************************************************************************)
EXTENDS Integers, Sequences, FiniteSets, TLC

(***************************************************************************)
(* Geometry (solution.py, lines 243-253)                                   *)
(***************************************************************************)
Side == 9

rows == [i \in 1..Side |-> i]

cols == [i \in 1..Side |-> i]

digits == 1..Side

\* 'A'+'1' is box 1, 'A'+'2' is box 2, ..., 'I'+'9' is box 81
box_of(r, c) == (r - 1) * Side + c

row_of(b) == ((b - 1) \div Side) + 1

col_of(b) == ((b - 1) % Side) + 1

\* [a + b for a in A for b in B]
cross(A, B) ==
    [k \in 1..(Len(A) * Len(B)) |->
        box_of(A[((k - 1) \div Len(B)) + 1], B[((k - 1) % Len(B)) + 1])]

boxes == cross(rows, cols)

NBoxes == Len(boxes)

row_units == [i \in 1..Side |-> cross(<<rows[i]>>, cols)]

col_units == [i \in 1..Side |-> cross(rows, <<cols[i]>>)]

bands == <<<<1, 2, 3>>, <<4, 5, 6>>, <<7, 8, 9>>>>

square_units ==
    [k \in 1..(Len(bands) * Len(bands)) |->
        cross(bands[((k - 1) \div Len(bands)) + 1], bands[((k - 1) % Len(bands)) + 1])]

\* (row + col, row + str(abs(c - 9))) for r == c, c the 0-based index of col
diag_tuples == [i \in 1..Side |-> <<box_of(rows[i], cols[i]), box_of(rows[i], Side - (i - 1))>>]

diag_units == <<[i \in 1..Side |-> diag_tuples[i][1]], [i \in 1..Side |-> diag_tuples[i][2]]>>

units == row_units \o col_units \o square_units \o diag_units

NUnits == Len(units)

Range(s) == {s[i] : i \in DOMAIN s}

boxdict == [b \in 1..NBoxes |-> {u \in 1..NUnits : b \in Range(units[u])}]

peers == [b \in 1..NBoxes |-> (UNION {Range(units[u]) : u \in boxdict[b]}) \ {b}]

(***************************************************************************)
(* grid_values                                                             *)
(***************************************************************************)
\* A dictionary written entry by entry, as the tuple of its values in the
\* order of `boxes`.  SubSeq over the whole index range is the identity on
\* such a tuple; it makes TLC build the tuple here, once.
as_dict(f) == SubSeq(f, 1, NBoxes)

grid_values(grid) ==
    as_dict([b \in 1..NBoxes |-> IF grid[b] = 0 THEN Range(cols) ELSE {grid[b]}])

(***************************************************************************)
(* eliminate                                                               *)
(***************************************************************************)
solved_boxes(values) == SelectSeq(boxes, LAMBDA b : Cardinality(values[b]) = 1)

\* one iteration of `for box in solved_boxes`: digit = values[box] is read
\* now, and every peer loses it; peers[box] is a set, the removals do not
\* depend on its order, and str.replace('', '') leaves the peer as it is
eliminate_box(values, box) ==
    as_dict([p \in 1..NBoxes |->
                IF p \in peers[box] THEN values[p] \ values[box] ELSE values[p]])

(***************************************************************************)
(* only_choice                                                             *)
(***************************************************************************)
\* [box for box in unit if digit in values[box]]
dplaces(values, unit, digit) == SelectSeq(unit, LAMBDA b : digit \in values[b])

\* the box the inner loop body assigns for this unit and digit (dplaces[0]
\* when len(dplaces) == 1), 0 when it assigns none
\* variant of only_choice: the first of several places is taken
only_choice_target_any(values, unit, digit) ==
    LET dp == dplaces(values, unit, digit)
    IN  IF Len(dp) >= 1 THEN dp[1] ELSE 0

only_choice_target(values, unit, digit) ==
    LET dp == dplaces(values, unit, digit)
    IN  IF Len(dp) = 1 THEN dp[1] ELSE 0

\* the body of the two nested loops, for one unit and one digit
only_choice_step(values, unit, digit) ==
    LET box == only_choice_target(values, unit, digit)
    IN  IF box # 0 THEN [values EXCEPT ![box] = {digit}] ELSE values

\* the iterations of the inner loop, numbered 1..NUnits*Side in the order
\* the code runs them: iteration k works on unit oc_unit(k), digit oc_digit(k)
OcSteps == NUnits * Side

oc_unit(k) == ((k - 1) \div Side) + 1

oc_digit(k) == ((k - 1) % Side) + 1

(***************************************************************************)
(* naked_twins                                                             *)
(***************************************************************************)
\* d[val] after the counting loop over the unit
twin_count(values, unit, val) == Cardinality({i \in 1..Len(unit) : values[unit[i]] = val})

\* d.items(): the two-digit values of the unit with their counts, in the
\* order of their first occurrence in the unit (dict insertion order)
d_items(values, unit) ==
    LET first == SelectSeq([i \in 1..Len(unit) |-> i],
                     LAMBDA i : /\ Cardinality(values[unit[i]]) = 2
                                /\ \A j \in 1..(i - 1) : values[unit[j]] # values[unit[i]])
    IN  [n \in 1..Len(first) |->
            [key |-> values[unit[first[n]]],
             count |-> twin_count(values, unit, values[unit[first[n]]])]]

\* `for box in unit: if values[box] != a + b: values[box] = re.sub(a|b, '', values[box])`
twins_remove(values, unit, key) ==
    as_dict([b \in 1..NBoxes |->
                IF b \in Range(unit) /\ values[b] # key THEN values[b] \ key ELSE values[b]])

\* `for (a, b), count in d.items(): if count == 2: ...`, from item n on
RECURSIVE twins_items_loop(_, _, _, _)
twins_items_loop(values, unit, items, n) ==
    IF n > Len(items) THEN values
    ELSE twins_items_loop(
            IF items[n].count = 2 THEN twins_remove(values, unit, items[n].key) ELSE values,
            unit, items, n + 1)

\* the body of `for unit in units`
naked_twins_unit(values, unit) == twins_items_loop(values, unit, d_items(values, unit), 1)

(***************************************************************************)
(* The predicates of search                                                *)
(***************************************************************************)
RECURSIVE SumLen(_, _)
SumLen(values, b) == IF b = 0 THEN 0 ELSE Cardinality(values[b]) + SumLen(values, b - 1)

\* len(''.join(values.values()))
total_len(values) == SumLen(values, NBoxes)

\* variant of is_same: `before is after`, false of a dictionary and its copy
is_same_identity(before, after) == FALSE

\* hash(tuple(before.values())) == hash(tuple(after.values())): equal tuples
\* of strings hash equally; the model takes unequal tuples to hash unequally
is_same(before, after) == before = after

is_searchable(values) == total_len(values) > 81

\* variant of is_solved: set(...) == set('123456789'), every digit occurs in each unit
is_solved_set(values) ==
    \A u \in 1..NUnits : UNION {values[units[u][i]] : i \in 1..Len(units[u])} = digits

\* ''.join(sorted(''.join(unit_values_list))) == '123456789': every digit
\* occurs exactly once in the concatenation of the unit's strings
unit_complete(values, unit) ==
    \A d \in digits : Cardinality({i \in 1..Len(unit) : d \in values[unit[i]]}) = 1

is_solved(values) == \A u \in 1..NUnits : unit_complete(values, units[u])

\* variant of the key of find_smallest_box: empty boxes are passed over too
box_key_nonempty(values, b) == IF Cardinality(values[b]) <= 1 THEN 10 ELSE Cardinality(values[b])

box_key(values, b) == IF Cardinality(values[b]) = 1 THEN 10 ELSE Cardinality(values[b])

\* min(values, key=...): the first box, in dict order, of minimal key
find_smallest_box(values) ==
    CHOOSE b \in 1..NBoxes :
        /\ \A c \in 1..NBoxes : box_key(values, b) <= box_key(values, c)
        /\ \A c \in 1..(b - 1) : box_key(values, c) > box_key(values, b)

(***************************************************************************)
(* The sample grids of the main block (lines 258-262); 0 stands for '.'    *)
(***************************************************************************)
g1 ==
    << 9, 0, 1, 0, 0, 0, 0, 8, 0,
       8, 0, 5, 0, 7, 0, 0, 4, 0,
       2, 0, 4, 0, 0, 0, 0, 6, 0,
       0, 0, 7, 0, 0, 0, 0, 0, 0,
       5, 0, 0, 0, 0, 0, 0, 0, 0,
       0, 0, 0, 0, 0, 0, 8, 3, 0,
       3, 0, 0, 6, 0, 0, 0, 0, 0,
       0, 9, 0, 0, 0, 0, 0, 0, 0,
       0, 0, 0, 0, 0, 0, 0, 0, 0 >>

g2 ==
    << 2, 0, 0, 0, 0, 0, 0, 0, 0,
       0, 0, 0, 0, 0, 6, 2, 0, 0,
       0, 0, 1, 0, 0, 0, 0, 7, 0,
       0, 0, 6, 0, 0, 8, 0, 0, 0,
       3, 0, 0, 0, 9, 0, 0, 0, 7,
       0, 0, 0, 6, 0, 0, 4, 0, 0,
       0, 4, 0, 0, 0, 0, 8, 0, 0,
       0, 0, 5, 2, 0, 0, 0, 0, 0,
       0, 0, 0, 0, 0, 0, 0, 0, 3 >>

g3 ==
    << 0, 0, 0, 0, 0, 0, 0, 2, 1,
       0, 9, 0, 0, 0, 6, 7, 0, 0,
       0, 0, 0, 2, 7, 0, 0, 0, 0,
       8, 0, 1, 0, 6, 7, 9, 0, 0,
       0, 0, 0, 0, 0, 0, 0, 0, 0,
       0, 0, 4, 3, 1, 0, 6, 0, 8,
       0, 0, 0, 0, 3, 2, 0, 0, 0,
       0, 0, 7, 5, 0, 0, 0, 1, 0,
       4, 8, 0, 0, 0, 0, 0, 0, 0 >>

g4 ==
    << 2, 6, 7, 5, 8, 4, 3, 9, 1,
       1, 5, 9, 3, 6, 2, 7, 4, 8,
       8, 3, 4, 9, 1, 7, 5, 2, 6,
       4, 9, 6, 7, 3, 8, 2, 1, 5,
       3, 1, 2, 4, 9, 5, 6, 8, 7,
       5, 7, 8, 6, 2, 1, 4, 3, 9,
       6, 4, 3, 1, 5, 9, 8, 7, 2,
       9, 2, 5, 8, 7, 3, 1, 6, 4,
       7, 8, 1, 2, 4, 6, 9, 5, 3 >>

g5 ==
    << 0, 0, 7, 0, 0, 0, 0, 0, 1,
       1, 0, 0, 3, 0, 0, 7, 4, 0,
       0, 0, 0, 0, 0, 0, 0, 0, 0,
       0, 9, 0, 0, 3, 0, 0, 1, 0,
       0, 0, 0, 0, 0, 0, 0, 0, 0,
       0, 0, 0, 0, 0, 0, 0, 0, 0,
       0, 0, 3, 0, 0, 0, 0, 7, 0,
       0, 0, 0, 8, 0, 0, 0, 6, 0,
       7, 0, 0, 2, 0, 0, 9, 5, 0 >>

(***************************************************************************)
(* State                                                                   *)
(***************************************************************************)
VARIABLES
    heap,       \* the dictionaries alive: object id -> tuple of 81 candidate sets
    stack,      \* the call stack: solve and the nested calls of search, or a direct caller of the rules
    run,        \* the rule running (eliminate, only_choice, naked_twins) and its loop position
    ret,        \* the value the last call of search returned, until its caller takes it
    prev,       \* the dictionary a rule works on, as it was before the rule's last iteration
    entry,      \* the dictionary a rule works on, as it was when the rule was called
    input,      \* the dictionary first given (by grid_values, or to the rules directly)
    sols,       \* the completions of the input grid, where they are enumerated
    last,       \* what the last step did
    napps       \* number of direct rule calls made so far

vars == <<heap, stack, run, ret, prev, entry, input, sols, last, napps>>

\* bounds
MaxApps == 2

MaxPat == 4

MaxEditBox == 2

Frame(fn, values, pc) ==
    [fn |-> fn, values |-> values, reduced |-> 0, pc |-> pc,
     box |-> 0, guesses |-> <<>>, gi |-> 0, fix |-> <<>>]

Top == stack[Len(stack)]

SetTop(f) == [stack EXCEPT ![Len(stack)] = f]

Pop == SubSeq(stack, 1, Len(stack) - 1)

Idle == [rule |-> "none", obj |-> 0, pos |-> 0, solved |-> <<>>]

Pending == [kind |-> "pending", ref |-> 0]

Did(kind, unit, digit, box) == [kind |-> kind, unit |-> unit, digit |-> digit, box |-> box]

\* the smallest object id not in use
NewId(h) ==
    CHOOSE n \in 1..(Cardinality(DOMAIN h) + 1) :
        /\ n \notin DOMAIN h
        /\ \A m \in 1..(n - 1) : m \in DOMAIN h

\* variant of values.copy(): the dictionary itself is passed on
copy_alias(h, o) == [heap |-> h, id |-> o]

\* values.copy(): a new dictionary with the same entries
copy(h, o) == LET id == NewId(h) IN [heap |-> h @@ (id :> h[o]), id |-> id]

\* the objects some name still refers to; the others are freed
Refs(st, rn, rt) ==
    ({st[i].values : i \in DOMAIN st} \cup {st[i].reduced : i \in DOMAIN st}
        \cup {rn.obj, rt.ref}) \ {0}

Collect(h, st, rn, rt) == [o \in (DOMAIN h \cap Refs(st, rn, rt)) |-> h[o]]

\* a rule is called on dictionary o
RuleCall(rule, h, o) ==
    [rule |-> rule, obj |-> o, pos |-> 1,
     solved |-> IF rule = "eliminate" THEN solved_boxes(h[o]) ELSE <<>>]

\* the running rule's loop is exhausted: the rule returns its dictionary
RuleDone ==
    CASE run.rule = "eliminate" -> run.pos > Len(run.solved)
      [] run.rule = "only_choice" -> run.pos > OcSteps
      [] run.rule = "naked_twins" -> run.pos > NUnits
      [] OTHER -> FALSE

\* `for guess in guesses`: the characters of the string, in order
chars(val) == SelectSeq(cols, LAMBDA d : d \in val)

\* variant of `if result:`, `if result is not None:`
truthy_not_none(v) == v.kind # "None"

\* `if result:` a non-empty dictionary is true, False and None are not
truthy(v) == v.kind = "board"

(***************************************************************************)
(* The three rules, one loop iteration per step                            *)
(***************************************************************************)
EliminateBox ==
    /\ run.rule = "eliminate" /\ run.pos <= Len(run.solved)
    /\ heap' = [heap EXCEPT ![run.obj] = eliminate_box(@, run.solved[run.pos])]
    /\ run' = [run EXCEPT !.pos = @ + 1]
    /\ prev' = heap[run.obj]
    /\ last' = Did("eliminate", 0, 0, run.solved[run.pos])
    /\ UNCHANGED <<stack, ret, entry, input, sols, napps>>

\* variant of only_choice: dplaces is read from the dictionary as it was when
\* only_choice was called
OnlyChoiceStepStale ==
    /\ run.rule = "only_choice" /\ run.pos <= OcSteps
    /\ LET unit == units[oc_unit(run.pos)]
           digit == oc_digit(run.pos)
           box == only_choice_target(entry, unit, digit)
       IN  /\ heap' = [heap EXCEPT ![run.obj] =
                          IF box = 0 THEN @ ELSE as_dict([@ EXCEPT ![box] = {digit}])]
           /\ last' = Did("only_choice", oc_unit(run.pos), digit, box)
    /\ run' = [run EXCEPT !.pos = @ + 1]
    /\ prev' = heap[run.obj]
    /\ UNCHANGED <<stack, ret, entry, input, sols, napps>>

OnlyChoiceStep ==
    /\ run.rule = "only_choice" /\ run.pos <= OcSteps
    /\ LET unit == units[oc_unit(run.pos)]
           digit == oc_digit(run.pos)
       IN  /\ heap' = [heap EXCEPT ![run.obj] = only_choice_step(@, unit, digit)]
           /\ last' = Did("only_choice", oc_unit(run.pos), digit,
                          only_choice_target(heap[run.obj], unit, digit))
    /\ run' = [run EXCEPT !.pos = @ + 1]
    /\ prev' = heap[run.obj]
    /\ UNCHANGED <<stack, ret, entry, input, sols, napps>>

NakedTwinsUnit ==
    /\ run.rule = "naked_twins" /\ run.pos <= NUnits
    /\ heap' = [heap EXCEPT ![run.obj] = naked_twins_unit(@, units[run.pos])]
    /\ run' = [run EXCEPT !.pos = @ + 1]
    /\ prev' = heap[run.obj]
    /\ last' = Did("naked_twins", run.pos, 0, 0)
    /\ UNCHANGED <<stack, ret, entry, input, sols, napps>>

(***************************************************************************)
(* solve and search                                                        *)
(***************************************************************************)
(***************************************************************************)
(* The completions of a grid, found by filling its blank boxes in order    *)
(* with every digit no peer holds: the reference the results of solve are  *)
(* compared with.  It uses the units (through peers) and nothing else of   *)
(* the solver.                                                             *)
(***************************************************************************)
blanks(grid) == SelectSeq(boxes, LAMBDA b : grid[b] = 0)

fits(a, b, d) == \A p \in peers[b] : a[p] # d

RECURSIVE Fill(_, _, _)
Fill(a, bl, i) ==
    IF i > Len(bl) THEN {a}
    ELSE UNION {Fill([a EXCEPT ![bl[i]] = d], bl, i + 1) : d \in {e \in digits : fits(a, bl[i], e)}}

Completions(grid) ==
    IF \E b \in 1..NBoxes : grid[b] # 0 /\ ~fits(grid, b, grid[b])
    THEN {}
    ELSE Fill(grid, blanks(grid), 1)

\* a grid with one completion, which search finds at its second guess
u1 ==
    << 3, 4, 7, 5, 0, 0, 2, 9, 1,
       1, 5, 8, 3, 2, 9, 7, 4, 6,
       9, 6, 2, 7, 1, 4, 5, 8, 3,
       2, 9, 5, 4, 3, 0, 0, 1, 7,
       0, 7, 4, 1, 0, 2, 0, 3, 5,
       0, 3, 1, 0, 5, 7, 4, 2, 0,
       4, 8, 3, 0, 0, 5, 1, 7, 2,
       5, 2, 9, 8, 7, 1, 3, 6, 4,
       7, 1, 6, 2, 4, 3, 0, 5, 0 >>

\* a grid with no completion, which propagation alone does not refute
n1 ==
    << 2, 0, 7, 0, 4, 5, 3, 8, 1,
       8, 0, 3, 7, 1, 0, 2, 0, 0,
       0, 0, 1, 8, 3, 2, 0, 0, 0,
       0, 7, 6, 0, 2, 8, 1, 0, 0,
       0, 8, 4, 1, 9, 0, 0, 0, 0,
       1, 2, 9, 0, 5, 7, 0, 3, 8,
       0, 0, 2, 0, 7, 0, 8, 1, 0,
       0, 3, 5, 0, 8, 1, 7, 6, 0,
       7, 1, 8, 0, 6, 0, 9, 0, 0 >>

\* a grid that holds 1 twice in row A
c1 ==
    << 1, 1, 0, 0, 0, 0, 0, 0, 0,
       0, 0, 0, 0, 0, 0, 0, 0, 0,
       0, 0, 0, 0, 0, 0, 0, 0, 0,
       0, 0, 0, 0, 0, 0, 0, 0, 0,
       0, 0, 0, 0, 0, 0, 0, 0, 0,
       0, 0, 0, 0, 0, 0, 0, 0, 0,
       0, 0, 0, 0, 0, 0, 0, 0, 0,
       0, 0, 0, 0, 0, 0, 0, 0, 0,
       0, 0, 0, 0, 0, 0, 0, 0, 0 >>

\* the grids solve is called with, as they are ...
Grids == {g1, g2, g3, g4, g5, u1, n1, c1}

\* ... or with one box among the first MaxEditBox overwritten (0 blanks it)
EditBases == {g4, u1, n1}

Edit(grid, b, d) == [k \in 1..NBoxes |-> IF k = b THEN d ELSE grid[k]]

\* the grids whose completions are enumerated: filling the blanks one by
\* one is out of reach on the sparse samples g1, g2 and g5
Counted(grid) == grid \notin {g1, g2, g5}

Unknown == [known |-> FALSE, set |-> {}]

\* solve(grid): values = grid_values(grid); search(values) is entered
SolveFrom(bases) ==
    /\ stack = <<>> /\ ret = Pending /\ input = <<>>
    /\ \E base \in bases : \E b \in 0..MaxEditBox : \E d \in 0..Side :
          /\ b = 0 => d = 0
          /\ b > 0 => base \in EditBases /\ d # base[b]
          /\ LET grid == Edit(base, b, d)
             IN  /\ heap' = (1 :> grid_values(grid))
                 /\ input' = grid_values(grid)
                 /\ sols' = IF Counted(grid)
                            THEN [known |-> TRUE, set |-> Completions(grid)]
                            ELSE Unknown
    /\ stack' = <<Frame("solve", 1, "call"), Frame("search", 1, "while")>>
    /\ last' = Did("solve", 0, 0, 0)
    /\ UNCHANGED <<run, ret, prev, entry, napps>>

Solve == SolveFrom(Grids)

\* line 152, reduced = reduce_puzzle(values.copy()), up to line 130, the call of eliminate
SearchReduce ==
    /\ stack # <<>> /\ Top.fn = "search" /\ Top.pc = "while"
    /\ LET c == copy(heap, Top.values)
           st == SetTop([Top EXCEPT !.reduced = c.id, !.pc = "reduce"])
           rn == RuleCall("eliminate", c.heap, c.id)
       IN  /\ stack' = st
           /\ run' = rn
           /\ heap' = Collect(c.heap, st, rn, ret)
           /\ prev' = c.heap[c.id]
           /\ entry' = c.heap[c.id]
    /\ last' = Did("call", 0, 0, 0)
    /\ UNCHANGED <<ret, input, sols, napps>>

\* line 131: eliminate has returned, reduce_puzzle calls only_choice
ReduceOnlyChoice ==
    /\ stack # <<>> /\ Top.fn = "search"
    /\ run.rule = "eliminate" /\ RuleDone
    /\ run' = RuleCall("only_choice", heap, run.obj)
    /\ prev' = heap[run.obj]
    /\ entry' = heap[run.obj]
    /\ last' = Did("call", 0, 0, 0)
    /\ UNCHANGED <<heap, stack, ret, input, sols, napps>>

\* line 132: only_choice has returned, reduce_puzzle calls naked_twins
ReduceNakedTwins ==
    /\ stack # <<>> /\ Top.fn = "search"
    /\ run.rule = "only_choice" /\ RuleDone
    /\ run' = RuleCall("naked_twins", heap, run.obj)
    /\ prev' = heap[run.obj]
    /\ entry' = heap[run.obj]
    /\ last' = Did("call", 0, 0, 0)
    /\ UNCHANGED <<heap, stack, ret, input, sols, napps>>

\* lines 133, 153, 154: naked_twins and reduce_puzzle have returned;
\* break when is_same, else values = reduced and the loop goes on
SearchIsSame ==
    /\ stack # <<>> /\ Top.fn = "search"
    /\ run.rule = "naked_twins" /\ RuleDone
    /\ LET st == IF is_same(heap[Top.values], heap[Top.reduced])
                 THEN SetTop([Top EXCEPT !.pc = "check", !.reduced = 0])
                 ELSE SetTop([Top EXCEPT !.pc = "while", !.values = Top.reduced, !.reduced = 0])
       IN  /\ stack' = st
           /\ heap' = Collect(heap, st, Idle, ret)
    /\ run' = Idle
    /\ last' = Did("is_same", 0, 0, 0)
    /\ UNCHANGED <<ret, prev, entry, input, sols, napps>>

\* search returns v to its caller
Return(v) ==
    /\ stack' = Pop
    /\ ret' = v
    /\ heap' = Collect(heap, Pop, run, v)

\* lines 156-163: return the solved board, return False, or choose the box to guess at
SearchCheck ==
    /\ stack # <<>> /\ Top.fn = "search" /\ Top.pc = "check"
    /\ LET values == heap[Top.values]
       IN  IF is_solved(values)
           THEN Return([kind |-> "board", ref |-> Top.values])
           ELSE IF ~is_searchable(values)
           THEN Return([kind |-> "False", ref |-> 0])
           ELSE /\ stack' = SetTop([Top EXCEPT !.pc = "for",
                                               !.box = find_smallest_box(values),
                                               !.guesses = chars(values[find_smallest_box(values)]),
                                               !.gi = 1,
                                               !.fix = values])
                /\ UNCHANGED <<heap, ret>>
    /\ last' = Did("check", 0, 0, 0)
    /\ UNCHANGED <<run, prev, entry, input, sols, napps>>

\* lines 164-166: the next guess; values[box] = guess; search(values.copy()) is entered
SearchGuess ==
    /\ stack # <<>> /\ Top.fn = "search" /\ Top.pc = "for"
    /\ Top.gi <= Len(Top.guesses)
    /\ LET guess == Top.guesses[Top.gi]
           h1 == [heap EXCEPT ![Top.values][Top.box] = {guess}]
           c == copy(h1, Top.values)
       IN  /\ stack' = Append(SetTop([Top EXCEPT !.pc = "call"]), Frame("search", c.id, "while"))
           /\ heap' = c.heap
           /\ last' = Did("guess", 0, guess, Top.box)
    /\ UNCHANGED <<run, ret, prev, entry, input, sols, napps>>

\* line 164, no guess left: search falls off its end and returns None
SearchExhausted ==
    /\ stack # <<>> /\ Top.fn = "search" /\ Top.pc = "for"
    /\ Top.gi > Len(Top.guesses)
    /\ Return([kind |-> "None", ref |-> 0])
    /\ last' = Did("exhausted", 0, 0, 0)
    /\ UNCHANGED <<run, prev, entry, input, sols, napps>>

\* lines 166-168: result = search(...); if result: return result; else the loop goes on
SearchResume ==
    /\ stack # <<>> /\ Top.fn = "search" /\ Top.pc = "call"
    /\ ret # Pending
    /\ IF truthy(ret)
       THEN Return(ret)
       ELSE /\ stack' = SetTop([Top EXCEPT !.pc = "for", !.gi = @ + 1])
            /\ ret' = Pending
            /\ UNCHANGED heap
    /\ last' = Did("resume", 0, 0, 0)
    /\ UNCHANGED <<run, prev, entry, input, sols, napps>>

\* line 236: solve returns what search returned
SolveReturn ==
    /\ stack # <<>> /\ Top.fn = "solve"
    /\ ret # Pending
    /\ stack' = <<>>
    /\ heap' = Collect(heap, <<>>, run, ret)
    /\ last' = Did("solved", 0, 0, 0)
    /\ UNCHANGED <<run, ret, prev, entry, input, sols, napps>>

Init ==
    /\ heap = <<>>
    /\ stack = <<>>
    /\ run = Idle
    /\ ret = Pending
    /\ prev = <<>>
    /\ entry = <<>>
    /\ input = <<>>
    /\ sols = Unknown
    /\ last = Did("init", 0, 0, 0)
    /\ napps = 0

Next ==
    \/ Solve
    \/ SearchReduce
    \/ EliminateBox
    \/ ReduceOnlyChoice
    \/ OnlyChoiceStep
    \/ ReduceNakedTwins
    \/ NakedTwinsUnit
    \/ SearchIsSame
    \/ SearchCheck
    \/ SearchGuess
    \/ SearchExhausted
    \/ SearchResume
    \/ SolveReturn

Spec == Init /\ [][Next]_vars

\* solve has returned
done == stack = <<>> /\ ret # Pending

(***************************************************************************)
(* The rules called directly on a given dictionary (they are the module's  *)
(* public functions), one call after the other                             *)
(***************************************************************************)
\* candidate strings written over the first MaxPat boxes of row A; {} keeps
\* the box as the base board has it
PatChoices == {{}, {6}, {6, 7}, {7, 8}}

RuleBases == {grid_values(g3)}

RulesInit ==
    /\ \E base \in RuleBases : \E pat \in [1..MaxPat -> PatChoices] :
          LET values == as_dict([b \in 1..NBoxes |->
                                    IF b <= MaxPat /\ pat[b] # {} THEN pat[b] ELSE base[b]])
          IN  /\ heap = (1 :> values)
              /\ input = values
              /\ prev = values
              /\ entry = values
    /\ stack = <<Frame("direct", 1, "idle")>>
    /\ run = Idle
    /\ ret = Pending
    /\ sols = Unknown
    /\ last = Did("init", 0, 0, 0)
    /\ napps = 0

\* rule(values) is called
DirectCall(rule) ==
    /\ stack # <<>> /\ Top.fn = "direct"
    /\ run.rule = "none" /\ napps < MaxApps
    /\ run' = RuleCall(rule, heap, Top.values)
    /\ prev' = heap[Top.values]
    /\ entry' = heap[Top.values]
    /\ last' = Did("call", 0, 0, 0)
    /\ napps' = napps + 1
    /\ UNCHANGED <<heap, stack, ret, input, sols>>

CallEliminate == DirectCall("eliminate")

CallOnlyChoice == DirectCall("only_choice")

CallNakedTwins == DirectCall("naked_twins")

\* the rule's loop is exhausted: `return values`
RuleReturn ==
    /\ stack # <<>> /\ Top.fn = "direct"
    /\ RuleDone
    /\ run' = Idle
    /\ last' = Did("return", 0, 0, 0)
    /\ UNCHANGED <<heap, stack, ret, prev, entry, input, sols, napps>>

RulesNext ==
    \/ CallEliminate
    \/ CallOnlyChoice
    \/ CallNakedTwins
    \/ EliminateBox
    \/ OnlyChoiceStep
    \/ NakedTwinsUnit
    \/ RuleReturn

SpecRules == RulesInit /\ [][RulesNext]_vars

\* the grids with few blanks, whose runs are short
DenseGrids == {g4, u1, n1, c1}

SolveDense == SolveFrom(DenseGrids)

NextDense ==
    \/ SolveDense
    \/ SearchReduce
    \/ EliminateBox
    \/ ReduceOnlyChoice
    \/ OnlyChoiceStep
    \/ ReduceNakedTwins
    \/ NakedTwinsUnit
    \/ SearchIsSame
    \/ SearchCheck
    \/ SearchGuess
    \/ SearchExhausted
    \/ SearchResume
    \/ SolveReturn

\* a sequential program takes its next step whenever it has one
FairSpec == Init /\ [][NextDense]_vars /\ WF_vars(NextDense)

(***************************************************************************)
(* Properties                                                              *)
(***************************************************************************)
HasEmpty(values) == \E b \in 1..NBoxes : values[b] = {}

Fits(s, values) == \A b \in 1..NBoxes : s[b] \in values[b]

FitsExcept(s, values, box) == \A b \in (1..NBoxes) \ {box} : s[b] \in values[b]

\* the dictionary of the direct caller, and the one the running rule works on
cur == heap[stack[1].values]

\* C1: every board search returns holds exactly one digit in each of the 81
\* boxes, and the nine digits of each of the 29 units are 1..9, each once.
C1_ReturnedBoardSolved ==
    ret.kind = "board" =>
        LET values == heap[ret.ref]
        IN  /\ \A b \in 1..NBoxes : Cardinality(values[b]) = 1
            /\ \A u \in 1..NUnits :
                  /\ UNION {values[b] : b \in Range(units[u])} = digits
                  /\ \A b, c \in Range(units[u]) : b # c => values[b] # values[c]

\* a nested call of search has returned a board to the call that guessed
C1_Witness ==
    /\ ret.kind = "board"
    /\ stack # <<>> /\ Top.fn = "search" /\ Top.pc = "call"

\* frame i of the stack still has the completion s among the boards it is to try
Carries(s, i) ==
    LET f == stack[i]
    IN  /\ f.fn = "search"
        /\ CASE f.pc \in {"while", "check"} -> Fits(s, heap[f.values])
             [] f.pc = "reduce" -> Fits(s, heap[f.values]) /\ Fits(s, heap[f.reduced])
             [] f.pc = "for" ->
                   /\ FitsExcept(s, f.fix, f.box)
                   /\ \E k \in f.gi..Len(f.guesses) : f.guesses[k] = s[f.box]
             [] f.pc = "call" ->
                   /\ FitsExcept(s, f.fix, f.box)
                   /\ \E k \in (f.gi + 1)..Len(f.guesses) : f.guesses[k] = s[f.box]
             [] OTHER -> FALSE

\* C2: when the input grid has exactly one completion, solve returns that
\* completion, box for box, given digits included; and until a board is
\* returned, some call of search on the stack still has the completion among
\* the boards it works on or is still to try.
C2_UniqueSolutionReturned ==
    (sols.known /\ Cardinality(sols.set) = 1) =>
        LET s == CHOOSE t \in sols.set : TRUE
        IN  /\ done =>
                  /\ ret.kind = "board"
                  /\ \A b \in 1..NBoxes : heap[ret.ref][b] = {s[b]}
                  /\ \A b \in 1..NBoxes : Cardinality(input[b]) = 1 => heap[ret.ref][b] = input[b]
            /\ (stack # <<>> /\ ret.kind # "board") => \E i \in DOMAIN stack : Carries(s, i)

\* the one completion is returned by the second guess of the first call of
\* search, the first guess having failed
C2_Witness ==
    /\ sols.known /\ Cardinality(sols.set) = 1
    /\ ret.kind = "board"
    /\ Len(stack) = 2 /\ Top.fn = "search" /\ Top.pc = "call" /\ Top.gi >= 2

\* C3 (as claimed): when the input grid has no completion, solve returns False.
C3_NoSolutionReturnsFalse ==
    (done /\ sols.known /\ sols.set = {}) => ret.kind = "False"

\* the propagation loop of the top call has made a pass that changed the board
PassChanged ==
    /\ stack # <<>> /\ Top.fn = "search"
    /\ run.rule = "naked_twins" /\ RuleDone
    /\ heap[Top.reduced] # heap[Top.values]

\* C4: every pass of the propagation loop that changes the board lowers the
\* total number of candidates; every board handed to a nested call of search
\* has fewer candidates in total than the fixpoint board of the call that
\* guessed, and keeps fewer; and solve eventually returns.
C4_Terminates ==
    /\ [](PassChanged => total_len(heap[Top.reduced]) < total_len(heap[Top.values]))
    /\ [](\A i \in DOMAIN stack :
              (i > 1 /\ stack[i - 1].fn = "search") =>
                  total_len(heap[stack[i].values]) < total_len(stack[i - 1].fix))
    /\ <>done

\* a nested call of search has left its propagation loop after a changing pass
C4_Witness ==
    /\ Len(stack) >= 3 /\ Top.fn = "search" /\ Top.pc = "check"
    /\ total_len(heap[Top.values]) < total_len(stack[Len(stack) - 1].fix) - 1

\* C5: whatever a rule has done so far, every box holds a subset of what it
\* held before the rule's last iteration, of what it held when the rule was
\* called, and of what it held when the dictionary was first given.
C5_MonotoneShrink ==
    \A b \in 1..NBoxes :
        /\ cur[b] \subseteq prev[b]
        /\ prev[b] \subseteq entry[b]
        /\ entry[b] \subseteq input[b]

\* two rule calls in a row have each removed candidates
C5_Witness ==
    /\ napps = 2 /\ last.kind = "return"
    /\ cur # entry /\ entry # input

\* C6 (as claimed): when eliminate returns, the digit of every box that was
\* solved when eliminate was called is a candidate of none of its peers.
C6_EliminateContract ==
    (run.rule = "eliminate" /\ RuleDone) =>
        \A c \in 1..NBoxes : Cardinality(entry[c]) = 1 =>
            \A p \in peers[c] : entry[c] \cap cur[p] = {}

\* C7 (as claimed): when naked_twins, working on unit U, removes digit d from
\* box c, exactly two other boxes of U held exactly {d, e} for some e when the
\* work on U began and c did not hold {d, e}; and the boxes of U that then
\* formed a pair of twins keep their two candidates.
C7_NakedTwinsSound ==
    last.kind = "naked_twins" =>
        LET U == Range(units[last.unit])
        IN  /\ \A c \in U : \A d \in prev[c] \ cur[c] :
                  \E e \in digits \ {d} :
                      /\ Cardinality({x \in U \ {c} : prev[x] = {d, e}}) = 2
                      /\ prev[c] # {d, e}
            /\ \A c \in U :
                  (Cardinality(prev[c]) = 2 /\ Cardinality({x \in U : prev[x] = prev[c]}) = 2)
                      => cur[c] = prev[c]

UnitKind(u) ==
    LET U == Range(units[u])
    IN  IF Cardinality({row_of(b) : b \in U}) = 1 THEN "row"
        ELSE IF Cardinality({col_of(b) : b \in U}) = 1 THEN "column"
        ELSE IF Cardinality({<<(row_of(b) - 1) \div 3, (col_of(b) - 1) \div 3>> : b \in U}) = 1 THEN "box"
        ELSE "diagonal"

\* C8: when only_choice assigns digit d to box c for unit U, then just before
\* d was a candidate of c and of no other box of U, c being a box of U, and no
\* other box changes; the iterations run through the 9 rows, the 9 columns,
\* the 9 boxes and the 2 diagonals, and through the digits 1..9 for each.
C8_OnlyChoiceSound ==
    last.kind = "only_choice" =>
        LET U == Range(units[last.unit])
            d == last.digit
            c == last.box
        IN  /\ c # 0 =>
                  /\ c \in U
                  /\ d \in prev[c]
                  /\ \A o \in U \ {c} : d \notin prev[o]
                  /\ cur[c] = {d}
            /\ \A b \in 1..NBoxes : cur[b] # prev[b] => b = c
            /\ (last.unit - 1) * 9 + d = run.pos - 1
            /\ UnitKind(last.unit) = (IF last.unit <= 9 THEN "row"
                                      ELSE IF last.unit <= 18 THEN "column"
                                      ELSE IF last.unit <= 27 THEN "box"
                                      ELSE "diagonal")

\* only_choice narrows a box, after an earlier iteration of the same call
\* has changed the board
C8_Witness ==
    /\ last.kind = "only_choice" /\ last.box # 0
    /\ cur # prev /\ prev # entry

Failure(v) == v.kind \in {"False", "None"}

\* the top call of search stands after its propagation loop on a board with an empty box
DeadBranch ==
    /\ stack # <<>> /\ Top.fn = "search"
    /\ \/ Top.pc = "check" /\ HasEmpty(heap[Top.values])
       \/ Top.pc = "for" /\ HasEmpty(Top.fix)

\* C9: a call of search whose propagation loop ended on a board with an empty
\* box pushes no nested call and returns False or None, never a board; a
\* caller that receives False or None goes on to its next guess, and a call
\* that has no guess left returns False or None itself.
C9_DeadBranch ==
    [][ /\ DeadBranch =>
              \/ stack' = Pop /\ Failure(ret')
              \/ /\ Len(stack') = Len(stack)
                 /\ stack'[Len(stack')].pc = "for"
                 /\ stack'[Len(stack')].guesses = <<>>
                 /\ ret' = Pending
        /\ (stack # <<>> /\ Top.fn = "search" /\ Top.pc = "call" /\ Failure(ret)) =>
              /\ Len(stack') = Len(stack)
              /\ stack'[Len(stack')] = [Top EXCEPT !.pc = "for", !.gi = Top.gi + 1]
              /\ ret' = Pending
        /\ (stack # <<>> /\ Top.fn = "search" /\ Top.pc = "for" /\ Top.gi > Len(Top.guesses)) =>
              stack' = Pop /\ Failure(ret') ]_vars

\* the propagation loop of a nested call has ended on a board with an empty box
C9_Witness ==
    /\ Len(stack) >= 3 /\ DeadBranch
    /\ Top.pc = "check"

\* the board of a call that has branched: its fixpoint board, but for the
\* box guessed at, which holds the guess made last
Guessed(f) ==
    IF f.pc = "call" \/ f.gi > 1
    THEN [f.fix EXCEPT ![f.box] = {f.guesses[IF f.pc = "call" THEN f.gi ELSE f.gi - 1]}]
    ELSE f.fix

\* C10: the guesses of a call are the candidates of the chosen box of its
\* fixpoint board V in ascending order; the board handed to a nested call
\* is V with the chosen box set to the guess; and as long as the call is
\* branching its own board is V with the chosen box set to its last guess,
\* whatever the nested calls have done.
C10_BranchIndependence ==
    \A i \in DOMAIN stack :
        LET f == stack[i]
        IN  (f.fn = "search" /\ f.pc \in {"for", "call"}) =>
                /\ {f.guesses[k] : k \in DOMAIN f.guesses} = f.fix[f.box]
                /\ \A k, l \in DOMAIN f.guesses : k < l => f.guesses[k] < f.guesses[l]
                /\ heap[f.values] = Guessed(f)
                /\ (last.kind = "guess" /\ i = Len(stack) - 1) =>
                      heap[Top.values] = [f.fix EXCEPT ![f.box] = {f.guesses[f.gi]}]

\* the second guess of a call is handed to a nested call after the first has
\* been explored and has failed
C10_Witness ==
    /\ last.kind = "guess" /\ Len(stack) >= 3
    /\ stack[Len(stack) - 1].gi >= 2
    /\ heap[Top.values] # stack[Len(stack) - 1].fix

=============================================================================
